---- MODULE Spec2Model ----
(***************************************************************************)
(* A model of the LRU cache of src/src/index.ts (class LRUCache and the    *)
(* module-level helpers get, isStale, trim, del, forEachStep).             *)
(*                                                                         *)
(* The recency list (a Yallist) is a sequence of LEntry records, head      *)
(* first.  The key index (a Map from key to list node) is the set of its   *)
(* keys; the node a key maps to is the position in the recency list of     *)
(* the entry that carries the key.  Every public operation runs to         *)
(* completion as one action; Date.now() is the variable clock, which only  *)
(* the action Tick advances.                                               *)
(***************************************************************************)
EXTENDS Integers, Sequences, FiniteSets, TLC

\* ------------------------------------------------------------------ bounds
\* The clock runs from 1 to MaxClock.
MaxClock == 3
\* load() is given arrays of at most MaxLoad entries.
MaxLoad == 2

\* ------------------------------------------------------------ input domains
\* `Infinity`: larger than every length, see Gt.
Infinity == -1
NoKey == "-"

\* An argument that should be a number: Num(n), or NaS, a non-empty string.
Num(n) == [num |-> TRUE, n |-> n]
NaS == [num |-> FALSE, n |-> 0]

\* The callers of the cache.  A workload fixes what one caller passes:
\*   keys, values   the keys and values of set()
\*   loads          the values in the records of load() (its keys are keys);
\*                  a caller with none loads the empty array only
\*   ages           the numbers given as maxAge (option, setter)
\*   ttls           the numbers given as the maxAge argument of set(); 0 is
\*                  also the absent argument (undefined || x  is  0 || x)
\*   caps           the numbers given as max (option, setter)
\*   calcs          the functions given as length (option, setter):
\*                  naiveLength, or the value itself as its length
\*   stales, upds   the values of the options stale and updateAgeOnGet
\*   disps          <<a dispose function is given, noDisposeOnSet>>
\*   ticks          whether time passes between its calls
\*   throws         the keys for which its dispose function throws
Workloads ==
    { \* capacity and recency, no ages
      [name |-> "capacity", keys |-> {"a", "b", "c"}, values |-> {1, 3},
       loads |-> {1, 3}, ages |-> {0}, ttls |-> {0}, caps |-> {-1, 0, 1, 2, 3},
       calcs |-> {"naiveLength", "byValue"},
       stales |-> {FALSE}, upds |-> {FALSE},
       disps |-> {<<TRUE, FALSE>>, <<TRUE, TRUE>>, <<FALSE, FALSE>>},
       ticks |-> FALSE, throws |-> {}],
      \* ages, stale reads, age refresh
      [name |-> "ages", keys |-> {"a", "b"}, values |-> {1, 2},
       loads |-> {1}, ages |-> {0, 1}, ttls |-> {0, 1}, caps |-> {0, 1},
       calcs |-> {"naiveLength"},
       stales |-> {FALSE, TRUE}, upds |-> {FALSE, TRUE},
       disps |-> {<<TRUE, FALSE>>},
       ticks |-> TRUE, throws |-> {}],
      \* three keys under the default age only
      [name |-> "sweep", keys |-> {"a", "b", "c"}, values |-> {1},
       loads |-> {}, ages |-> {0, 1}, ttls |-> {0}, caps |-> {0, 2},
       calcs |-> {"naiveLength"},
       stales |-> {FALSE, TRUE}, upds |-> {FALSE},
       disps |-> {<<TRUE, FALSE>>},
       ticks |-> TRUE, throws |-> {}],
      \* negative ages
      [name |-> "negative", keys |-> {"a", "b"}, values |-> {1, 2},
       loads |-> {}, ages |-> {-1, 0, 1}, ttls |-> {-1, 0, 1}, caps |-> {0, 1},
       calcs |-> {"byValue"},
       stales |-> {FALSE}, upds |-> {FALSE},
       disps |-> {<<TRUE, FALSE>>, <<TRUE, TRUE>>},
       ticks |-> TRUE, throws |-> {}] }

\* The callers whose dispose function throws: for one key, and for every key.
ThrowWorkloads ==
    { [name |-> "throwsForOne", keys |-> {"a", "b", "c"}, values |-> {1, 2},
       loads |-> {1}, ages |-> {0}, ttls |-> {0}, caps |-> {0, 2, 3},
       calcs |-> {"naiveLength", "byValue"},
       stales |-> {FALSE}, upds |-> {FALSE},
       disps |-> {<<TRUE, FALSE>>, <<TRUE, TRUE>>},
       ticks |-> FALSE, throws |-> {"a"}],
      [name |-> "throwsStale", keys |-> {"a", "b"}, values |-> {1},
       loads |-> {1}, ages |-> {0, 1}, ttls |-> {0, 1}, caps |-> {0, 1},
       calcs |-> {"naiveLength"},
       stales |-> {FALSE, TRUE}, upds |-> {FALSE},
       disps |-> {<<TRUE, FALSE>>},
       ticks |-> TRUE, throws |-> {"a"}],
      [name |-> "throwsAlways", keys |-> {"a", "b"}, values |-> {1, 2},
       loads |-> {}, ages |-> {0, 1}, ttls |-> {0}, caps |-> {0, 1, 2},
       calcs |-> {"byValue"},
       stales |-> {FALSE}, upds |-> {FALSE},
       disps |-> {<<TRUE, FALSE>>},
       ticks |-> TRUE, throws |-> {"a", "b"}] }

VARIABLES
    workload,           \* the caller (never changes)
    cache,              \* this[CACHE]: the keys of the Map
    lruList,            \* this[LRU_LIST]: sequence of LEntry, head first
    length,             \* this[LENGTH]
    max,                \* this[MAX]
    maxAge,             \* this[MAX_AGE]
    lengthCalculator,   \* this[LENGTH_CALCULATOR]
    allowStale,         \* this[ALLOW_STALE]
    dispose,            \* this[DISPOSE] is a function
    noDisposeOnSet,     \* this[NO_DISPOSE_ON_SET]
    updateAgeOnGet,     \* this[UPDATE_AGE_ON_GET]
    clock,              \* Date.now()
    lastOp,             \* the call that just returned and its arguments
    ret,                \* what it returned (or threw)
    disposed,           \* the dispose(key, value) calls it made, in order
    out                 \* the visitor calls of forEach / the array of dump

vars == <<workload, cache, lruList, length, max, maxAge, lengthCalculator, allowStale,
          dispose, noDisposeOnSet, updateAgeOnGet, clock, lastOp, ret,
          disposed, out>>

config == <<max, maxAge, lengthCalculator, allowStale, dispose,
            noDisposeOnSet, updateAgeOnGet>>

\* ------------------------------------------------------------------ helpers
\* x > m for a number x and a capacity m that may be Infinity.
Gt(x, m) == m # Infinity /\ x > m

naiveLength == 1

\* this[LENGTH_CALCULATOR](value, key)
Weight(lc, value, key) == IF lc = "naiveLength" THEN naiveLength ELSE value

\* The object the helpers receive as `self`, with the dispose calls made so
\* far; thrown: a dispose call has thrown, and the exception is on its way
\* out of the operation, none of whose remaining statements runs.
Self ==
    [cache |-> cache, lruList |-> lruList, length |-> length, max |-> max,
     maxAge |-> maxAge, lengthCalculator |-> lengthCalculator,
     allowStale |-> allowStale, dispose |-> dispose,
     noDisposeOnSet |-> noDisposeOnSet, updateAgeOnGet |-> updateAgeOnGet,
     disposed |-> <<>>, throws |-> workload.throws, thrown |-> FALSE]

\* self[DISPOSE](key, value), when a dispose function is configured
callDispose(self, key, value) ==
    IF self.dispose
    THEN [self EXCEPT !.disposed = Append(@, <<key, value>>),
                      !.thrown = key \in self.throws]
    ELSE self

\* Yallist.removeNode
removeNode(list, node) ==
    [i \in 1..(Len(list) - 1) |-> IF i < node THEN list[i] ELSE list[i + 1]]

\* Yallist.unshiftNode: move the node to the head
unshiftNode(list, node) == <<list[node]>> \o removeNode(list, node)

\* self[CACHE].get(key): the node of the key, 0 for undefined
cacheGet(self, key) ==
    IF key \in self.cache
    THEN CHOOSE i \in 1..Len(self.lruList) : self.lruList[i].key = key
    ELSE 0

LEntry(key, value, len, now, age) ==
    [key |-> key, value |-> value, length |-> len, now |-> now, maxAge |-> age]

isStale(self, hit, now) ==
    IF hit.maxAge = 0 /\ self.maxAge = 0
    THEN FALSE
    ELSE LET diff == now - hit.now
         IN  IF hit.maxAge # 0
             THEN diff > hit.maxAge
             ELSE self.maxAge # 0 /\ diff > self.maxAge

\* del without its self[CACHE].delete(hit.key)
delKeepsIndex(self, node) ==
    IF node = 0
    THEN self
    ELSE LET hit == self.lruList[node]
             s == callDispose(self, hit.key, hit.value)
         IN  [s EXCEPT !.length = @ - hit.length,
                       !.lruList = removeNode(@, node)]

\* del without its self[LENGTH] -= hit.length
delKeepsLength(self, node) ==
    IF node = 0
    THEN self
    ELSE LET hit == self.lruList[node]
             s == callDispose(self, hit.key, hit.value)
         IN  [s EXCEPT !.cache = @ \ {hit.key},
                       !.lruList = removeNode(@, node)]

\* del removing the key from the index before it calls dispose
delDisposesMidway(self, node) ==
    IF node = 0
    THEN self
    ELSE LET hit == self.lruList[node]
             s == callDispose([self EXCEPT !.cache = @ \ {hit.key}],
                              hit.key, hit.value)
         IN  IF s.thrown
             THEN s
             ELSE [s EXCEPT !.length = @ - hit.length,
                            !.lruList = removeNode(@, node)]

del(self, node) ==
    IF node = 0
    THEN self
    ELSE LET hit == self.lruList[node]
             s == callDispose(self, hit.key, hit.value)
         IN  IF s.thrown
             THEN s
             ELSE [s EXCEPT !.length = @ - hit.length,
                            !.cache = @ \ {hit.key},
                            !.lruList = removeNode(@, node)]

\* The loop of trim going on while self[LENGTH] >= self[MAX]
RECURSIVE trimWalkEager(_, _)
trimWalkEager(self, walker) ==
    IF self.max # Infinity /\ self.length >= self.max /\ walker # 0
    THEN trimWalkEager(del(self, walker), walker - 1)
    ELSE self

\* The loop of trim: walker is a node, 0 for null; walker.prev is walker - 1.
RECURSIVE trimWalk(_, _)
trimWalk(self, walker) ==
    IF ~self.thrown /\ Gt(self.length, self.max) /\ walker # 0
    THEN trimWalk(del(self, walker), walker - 1)
    ELSE self

\* trim with an `if` for its loop: it drops the tail only
trimOnce(self) ==
    IF Gt(self.length, self.max)
    THEN del(self, Len(self.lruList))
    ELSE self

trim(self) ==
    IF ~self.thrown /\ Gt(self.length, self.max)
    THEN trimWalk(self, Len(self.lruList))
    ELSE self

\* What an operation returns.
Void == [kind |-> "void", val |-> 0]
Undefined == [kind |-> "undefined", val |-> 0]
Null == [kind |-> "null", val |-> 0]
TypeError == [kind |-> "TypeError", val |-> 0]
Bool(b) == [kind |-> IF b THEN "true" ELSE "false", val |-> 0]
Val(v) == [kind |-> "value", val |-> v]
\* The exception of a dispose call, which no method catches.
DisposeError == [kind |-> "DisposeError", val |-> 0]

\* What the caller gets: the exception when dispose threw, else r.
Outcome(self, r) == IF self.thrown THEN DisposeError ELSE r

\* The doUse branch of get without its unshiftNode
useKeepsPlace(self, node, now) ==
    [self EXCEPT !.lruList = IF self.updateAgeOnGet
                             THEN [@ EXCEPT ![node].now = now]
                             ELSE @]

\* The doUse branch of get without its node.value.now = Date.now()
useNeverStamps(self, node, now) ==
    [self EXCEPT !.lruList = unshiftNode(@, node)]

\* The doUse branch of get: refresh the age, move the node to the head
use(self, node, now) ==
    LET aged == IF self.updateAgeOnGet
                THEN [self.lruList EXCEPT ![node].now = now]
                ELSE self.lruList
    IN  [self EXCEPT !.lruList = unshiftNode(aged, node)]

\* get without the del of a stale hit
getLeavesStale(self, key, doUse, now) ==
    LET node == cacheGet(self, key)
    IN  IF node = 0
        THEN [self |-> self, ret |-> Undefined]
        ELSE LET hit == self.lruList[node]
             IN  IF isStale(self, hit, now)
                 THEN [self |-> self,
                       ret |-> IF self.allowStale THEN Val(hit.value)
                               ELSE Undefined]
                 ELSE [self |-> IF doUse THEN use(self, node, now) ELSE self,
                       ret |-> Val(hit.value)]

\* get returning undefined for every stale hit, whatever allowStale is
getHidesStale(self, key, doUse, now) ==
    LET node == cacheGet(self, key)
    IN  IF node = 0
        THEN [self |-> self, ret |-> Undefined]
        ELSE LET hit == self.lruList[node]
             IN  IF isStale(self, hit, now)
                 THEN [self |-> del(self, node), ret |-> Undefined]
                 ELSE [self |-> IF doUse THEN use(self, node, now) ELSE self,
                       ret |-> Val(hit.value)]

get(self, key, doUse, now) ==
    LET node == cacheGet(self, key)
    IN  IF node = 0
        THEN [self |-> self, ret |-> Undefined]
        ELSE LET hit == self.lruList[node]
             IN  IF isStale(self, hit, now)
                 THEN [self |-> del(self, node),
                       ret |-> IF self.allowStale THEN Val(hit.value)
                               ELSE Undefined]
                 ELSE [self |-> IF doUse THEN use(self, node, now) ELSE self,
                       ret |-> Val(hit.value)]

\* set() of a present key with len > max, without its del
rejectPresentKeepsOld(self, key) == self

\* set() of a present key with len > max: the old entry goes
rejectPresent(self, key) == del(self, cacheGet(self, key))

\* set() of a new key with hit.length > max: the value is disposed of
rejectNew(self, key, value) == callDispose(self, key, value)

\* set() of a present key calling dispose whatever noDisposeOnSet is
disposeOfOldAlways(self, key, item) == callDispose(self, key, item.value)

\* set() of a present key: dispose of the old one before overwriting
disposeOfOld(self, key, item) ==
    IF ~self.noDisposeOnSet
    THEN callDispose(self, key, item.value)
    ELSE self

\* LRUCache.set; age is the maxAge argument, Num(0) when it is absent.
set(self, key, value, age, now) ==
    IF ~age.num
    THEN [self |-> self, ret |-> TypeError]
    ELSE
    LET mA == IF age.n # 0 THEN age.n ELSE self.maxAge
        nw == IF mA # 0 THEN now ELSE 0
        len == Weight(self.lengthCalculator, value, key)
    IN  IF key \in self.cache
        THEN IF Gt(len, self.max)
             THEN [self |-> rejectPresent(self, key), ret |-> Bool(FALSE)]
             ELSE LET node == cacheGet(self, key)
                      item == self.lruList[node]
                      s1 == disposeOfOld(self, key, item)
                      s2 == IF s1.thrown
                            THEN s1
                            ELSE [s1 EXCEPT
                                    !.lruList[node] =
                                        LEntry(key, value, len, nw, mA),
                                    !.length = @ + len - item.length]
                      s3 == IF s2.thrown
                            THEN s2
                            ELSE get(s2, key, TRUE, now).self
                  IN  [self |-> trim(s3), ret |-> Bool(TRUE)]
        ELSE LET hit == LEntry(key, value, len, nw, mA)
             IN  IF Gt(hit.length, self.max)
                 THEN [self |-> rejectNew(self, key, value),
                       ret |-> Bool(FALSE)]
                 ELSE [self |-> trim([self EXCEPT
                                        !.length = @ + hit.length,
                                        !.lruList = <<hit>> \o @,
                                        !.cache = @ \cup {key}]),
                       ret |-> Bool(TRUE)]

\* has without its isStale check
hasIgnoresAge(self, key, now) == key \in self.cache

\* LRUCache.has
has(self, key, now) ==
    IF key \notin self.cache
    THEN FALSE
    ELSE ~isStale(self, self.lruList[cacheGet(self, key)], now)

\* reset without its dispose calls
resetSilent(self) ==
    [self EXCEPT !.cache = {}, !.lruList = <<>>, !.length = 0]

\* reset calling dispose from the tail of the list to its head
resetTailFirst(self) ==
    LET n == Len(self.lruList)
        calls == [i \in 1..n |-> <<self.lruList[n + 1 - i].key,
                                   self.lruList[n + 1 - i].value>>]
    IN  [self EXCEPT !.disposed = IF self.dispose THEN @ \o calls ELSE @,
                     !.cache = {},
                     !.lruList = <<>>,
                     !.length = 0]

\* LRUCache.reset
reset(self) ==
    LET calls == [i \in 1..Len(self.lruList) |->
                    <<self.lruList[i].key, self.lruList[i].value>>]
        bad == {i \in 1..Len(calls) : calls[i][1] \in self.throws}
        last == CHOOSE i \in bad : \A j \in bad : i <= j
    IN  IF self.dispose /\ bad # {}
        THEN [self EXCEPT !.disposed = @ \o SubSeq(calls, 1, last),
                          !.thrown = TRUE]
        ELSE [self EXCEPT !.disposed = IF self.dispose THEN @ \o calls ELSE @,
                          !.cache = {},
                          !.lruList = <<>>,
                          !.length = 0]

\* LRUCache.pop
pop(self) ==
    LET node == Len(self.lruList)
    IN  IF node = 0
        THEN [self |-> self, ret |-> Null]
        ELSE [self |-> del(self, node),
              ret |-> [kind |-> "entry", val |-> self.lruList[node].value]]

\* LRUCache.dump: the array of {k, v, e}
dump(self, now) ==
    LET keep == SelectSeq(self.lruList, LAMBDA hit : ~isStale(self, hit, now))
    IN  [i \in 1..Len(keep) |->
           [k |-> keep[i].key, v |-> keep[i].value,
            e |-> keep[i].now + keep[i].maxAge]]

\* LRUCache.load, after its reset: the loop from l down to 0
RECURSIVE loadFrom(_, _, _, _)
loadFrom(self, arr, l, now) ==
    IF l = 0 \/ self.thrown
    THEN self
    ELSE LET hit == arr[l]
             expiresAt == hit.e
             age == expiresAt - now
             s == IF expiresAt = 0
                  THEN set(self, hit.k, hit.v, Num(0), now).self
                  ELSE IF age > 0
                  THEN set(self, hit.k, hit.v, Num(age), now).self
                  ELSE self
         IN  loadFrom(s, arr, l - 1, now)

load(self, arr, now) == loadFrom(reset(self), arr, Len(arr), now)

\* LRUCache.prune; order is the order in which the Map hands out its keys
\* prune reading the keys with get(key), as a use
RECURSIVE prunePromotes(_, _, _)
prunePromotes(self, order, now) ==
    IF order = <<>>
    THEN self
    ELSE prunePromotes(get(self, Head(order), TRUE, now).self, Tail(order),
                       now)

RECURSIVE prune(_, _, _)
prune(self, order, now) ==
    IF order = <<>> \/ self.thrown
    THEN self
    ELSE prune(get(self, Head(order), FALSE, now).self, Tail(order), now)

\* forEachStep: the cache after the step, and the visitor calls made
forEachStep(st, node, now) ==
    LET self == st.self
        hit == self.lruList[node]
        stale == isStale(self, hit, now)
        s == IF stale THEN del(self, node) ELSE self
    IN  [self |-> s,
         out |-> IF s.thrown \/ (stale /\ ~self.allowStale)
                 THEN st.out
                 ELSE Append(st.out, <<hit.value, hit.key>>),
         gone |-> stale]

\* LRUCache.forEach: walker is a node; when the step removes the node, the
\* node that was walker.next has moved to walker's position
RECURSIVE forEachWalk(_, _, _)
forEachWalk(st, walker, now) ==
    IF walker > Len(st.self.lruList) \/ st.self.thrown
    THEN st
    ELSE LET nx == forEachStep(st, walker, now)
         IN  forEachWalk(nx, IF nx.gone THEN walker ELSE walker + 1, now)

forEach(self, now) == forEachWalk([self |-> self, out |-> <<>>], 1, now)

\* LRUCache.rforEach: walker.prev is walker - 1, 0 for null
RECURSIVE rforEachWalk(_, _, _)
rforEachWalk(st, walker, now) ==
    IF walker = 0 \/ st.self.thrown
    THEN st
    ELSE rforEachWalk(forEachStep(st, walker, now), walker - 1, now)

\* rforEach starting at the head
rforEachHeadFirst(self, now) == forEach(self, now)

rforEach(self, now) ==
    rforEachWalk([self |-> self, out |-> <<>>], Len(self.lruList), now)

\* The body of the lengthCalculator setter when the function changes
RECURSIVE SumLength(_)
SumLength(list) ==
    IF list = <<>> THEN 0 ELSE Head(list).length + SumLength(Tail(list))

recalculate(self, lC) ==
    LET list == [i \in 1..Len(self.lruList) |->
                   [self.lruList[i] EXCEPT
                      !.length = Weight(lC, self.lruList[i].value,
                                        self.lruList[i].key)]]
    IN  [self EXCEPT !.lengthCalculator = lC,
                     !.lruList = list,
                     !.length = SumLength(list)]

\* The max setter without its trim
setMaxKeepsAll(self, mL) ==
    [self EXCEPT !.max = IF mL = 0 THEN Infinity ELSE mL]

\* The max setter, for a number mL >= 0:  this[MAX] = mL || Infinity; trim
setMax(self, mL) ==
    trim([self EXCEPT !.max = IF mL = 0 THEN Infinity ELSE mL])

\* The maxAge setter dropping what it holds
setMaxAgeResets(self, mA) == reset([self EXCEPT !.maxAge = mA])

\* The maxAge setter, for a number mA:  this[MAX_AGE] = mA; trim
setMaxAge(self, mA) == trim([self EXCEPT !.maxAge = mA])

\* ------------------------------------------------------------------ inputs
RECURSIVE Orders(_)
Orders(S) ==
    IF S = {} THEN {<<>>}
    ELSE UNION {{<<x>> \o o : o \in Orders(S \ {x})} : x \in S}

Numbers(S) == {Num(n) : n \in S}

\* The {k, v, e} records a caller passes to load(): no expiry (0), expired
\* (now), or an expiry one of its ages away from now.
Entries ==
    [k : workload.keys, v : workload.loads,
     e : {0, clock} \cup {clock + a : a \in {b \in workload.ages : b > 0}}]

\* The arrays of at most n elements of S
Arrays(S, n) == UNION {[1..m -> S] : m \in 0..n}

\* ------------------------------------------------------------------ actions
Op(name, key, value, age) ==
    [op |-> name, key |-> key, value |-> value, age |-> age]

Idle == Op("idle", NoKey, 0, Num(0))

\* The cache fields and the dispose calls, from the object a helper returns.
Becomes(self) ==
    /\ cache' = self.cache
    /\ lruList' = self.lruList
    /\ length' = self.length
    /\ max' = self.max
    /\ maxAge' = self.maxAge
    /\ lengthCalculator' = self.lengthCalculator
    /\ allowStale' = self.allowStale
    /\ disposed' = self.disposed
    /\ UNCHANGED <<workload, dispose, noDisposeOnSet, updateAgeOnGet, clock>>

\* new LRUCache(options), for the options the constructor accepts
Construct ==
    /\ cache = {}
    /\ lruList = <<>>
    /\ length = 0
    /\ max \in {IF m = 0 THEN Infinity ELSE m : m \in {c \in workload.caps : c >= 0}}
    /\ maxAge \in workload.ages
    /\ lengthCalculator \in workload.calcs
    /\ allowStale \in workload.stales
    /\ \E d \in workload.disps : dispose = d[1] /\ noDisposeOnSet = d[2]
    /\ updateAgeOnGet \in workload.upds
    /\ clock = 1
    /\ lastOp = Idle
    /\ ret = Void
    /\ disposed = <<>>
    /\ out = <<>>

Init == workload \in Workloads /\ Construct

\* Time passes between two calls.
Tick ==
    /\ lastOp = Idle
    /\ workload.ticks
    /\ clock < MaxClock
    /\ clock' = clock + 1
    /\ UNCHANGED <<workload, cache, lruList, length, config, lastOp, ret,
                   disposed, out>>

\* The caller has taken the result of the call and is ready for the next.
Return ==
    /\ lastOp # Idle
    /\ lastOp' = Idle
    /\ ret' = Void
    /\ disposed' = <<>>
    /\ out' = <<>>
    /\ UNCHANGED <<workload, cache, lruList, length, config, clock>>

Set(key, value, age) ==
    LET r == set(Self, key, value, age, clock)
    IN  /\ lastOp = Idle
        /\ Becomes(r.self)
        /\ ret' = Outcome(r.self, r.ret)
        /\ lastOp' = Op("set", key, value, age)
        /\ out' = <<>>

Get(key) ==
    LET r == get(Self, key, TRUE, clock)
    IN  /\ lastOp = Idle
        /\ Becomes(r.self)
        /\ ret' = Outcome(r.self, r.ret)
        /\ lastOp' = Op("get", key, 0, Num(0))
        /\ out' = <<>>

Peek(key) ==
    LET r == get(Self, key, FALSE, clock)
    IN  /\ lastOp = Idle
        /\ Becomes(r.self)
        /\ ret' = Outcome(r.self, r.ret)
        /\ lastOp' = Op("peek", key, 0, Num(0))
        /\ out' = <<>>

Has(key) ==
    /\ lastOp = Idle
    /\ Becomes(Self)
    /\ ret' = Bool(has(Self, key, clock))
    /\ lastOp' = Op("has", key, 0, Num(0))
    /\ out' = <<>>

Del(key) ==
    /\ lastOp = Idle
    /\ Becomes(del(Self, cacheGet(Self, key)))
    /\ ret' = Outcome(del(Self, cacheGet(Self, key)), Void)
    /\ lastOp' = Op("del", key, 0, Num(0))
    /\ out' = <<>>

Pop ==
    LET r == pop(Self)
    IN  /\ lastOp = Idle
        /\ Becomes(r.self)
        /\ ret' = Outcome(r.self, r.ret)
        /\ lastOp' = Op("pop", NoKey, 0, Num(0))
        /\ out' = <<>>

Reset ==
    /\ lastOp = Idle
    /\ Becomes(reset(Self))
    /\ ret' = Outcome(reset(Self), Void)
    /\ lastOp' = Op("reset", NoKey, 0, Num(0))
    /\ out' = <<>>

Prune(order) ==
    /\ lastOp = Idle
    /\ Becomes(prune(Self, order, clock))
    /\ ret' = Outcome(prune(Self, order, clock), Void)
    /\ lastOp' = Op("prune", NoKey, 0, Num(0))
    /\ out' = <<>>

Dump ==
    /\ lastOp = Idle
    /\ Becomes(Self)
    /\ ret' = Void
    /\ lastOp' = Op("dump", NoKey, 0, Num(0))
    /\ out' = dump(Self, clock)

Load(arr) ==
    /\ lastOp = Idle
    /\ Becomes(load(Self, arr, clock))
    /\ ret' = Outcome(load(Self, arr, clock), Void)
    /\ lastOp' = Op("load", NoKey, 0, Num(0))
    /\ out' = <<>>

ForEach ==
    LET r == forEach(Self, clock)
    IN  /\ lastOp = Idle
        /\ Becomes(r.self)
        /\ ret' = Outcome(r.self, Void)
        /\ lastOp' = Op("forEach", NoKey, 0, Num(0))
        /\ out' = r.out

RForEach ==
    LET r == rforEach(Self, clock)
    IN  /\ lastOp = Idle
        /\ Becomes(r.self)
        /\ ret' = Outcome(r.self, Void)
        /\ lastOp' = Op("rforEach", NoKey, 0, Num(0))
        /\ out' = r.out

\* set max(mL)
SetMax(mL) ==
    /\ lastOp = Idle
    /\ IF ~mL.num \/ mL.n < 0
       THEN Becomes(Self) /\ ret' = TypeError
       ELSE /\ Becomes(setMax(Self, mL.n))
            /\ ret' = Outcome(setMax(Self, mL.n), Void)
    /\ lastOp' = Op("max", NoKey, 0, mL)
    /\ out' = <<>>

\* set maxAge(mA)
SetMaxAge(mA) ==
    /\ lastOp = Idle
    /\ IF ~mA.num
       THEN Becomes(Self) /\ ret' = TypeError
       ELSE /\ Becomes(setMaxAge(Self, mA.n))
            /\ ret' = Outcome(setMaxAge(Self, mA.n), Void)
    /\ lastOp' = Op("maxAge", NoKey, 0, mA)
    /\ out' = <<>>

\* set allowStale(allowStale)
SetAllowStale(b) ==
    /\ lastOp = Idle
    /\ Becomes([Self EXCEPT !.allowStale = b])
    /\ ret' = Void
    /\ lastOp' = Op("allowStale", NoKey, IF b THEN 1 ELSE 0, Num(0))
    /\ out' = <<>>

\* set lengthCalculator(lC); "notAFunction" is an argument that is no function
SetLengthCalculator(arg) ==
    LET lC == IF arg = "notAFunction" THEN "naiveLength" ELSE arg
        s == trim(IF lC # lengthCalculator
                  THEN recalculate(Self, lC)
                  ELSE Self)
    IN  /\ lastOp = Idle
        /\ Becomes(s)
        /\ ret' = Outcome(s, Void)
        /\ lastOp' = Op("lengthCalculator", arg, 0, Num(0))
        /\ out' = <<>>

Next ==
    \/ Tick
    \/ Return
    \/ \E key \in workload.keys, value \in workload.values,
          age \in Numbers(workload.ttls) \cup {NaS} : Set(key, value, age)
    \/ \E key \in workload.keys : Get(key)
    \/ \E key \in workload.keys : Peek(key)
    \/ \E key \in workload.keys : Has(key)
    \/ \E key \in workload.keys : Del(key)
    \/ Pop
    \/ Reset
    \/ \E order \in Orders(cache) : Prune(order)
    \/ Dump
    \/ \E arr \in Arrays(Entries, MaxLoad) : Load(arr)
    \/ ForEach
    \/ RForEach
    \/ \E mL \in Numbers(workload.caps) \cup {NaS} : SetMax(mL)
    \/ \E mA \in Numbers(workload.ages) \cup {NaS} : SetMaxAge(mA)
    \/ \E b \in workload.stales : SetAllowStale(b)
    \/ \E arg \in workload.calcs \cup {"notAFunction"} : SetLengthCalculator(arg)

Spec == Init /\ [][Next]_vars

\* The cache under a caller whose dispose function throws.
InitThrow == workload \in ThrowWorkloads /\ Construct

SpecThrow == InitThrow /\ [][Next]_vars

\* ------------------------------------------------------------------- claims
\* The keys of the recency list, head first.
ListKeys == [i \in 1..Len(lruList) |-> lruList[i].key]

\* The call that just returned was op.
Did(op) == lastOp.op = op

\* list without the entry of key
Without(list, key) == SelectSeq(list, LAMBDA e : e.key # key)

\* p is list cut after some entry, and when entries were cut, the total length
\* with the first of them still in was above the capacity cap.
CutToFit(p, list, total, cap) ==
    /\ Len(p) <= Len(list)
    /\ p = SubSeq(list, 1, Len(p))
    /\ Len(p) < Len(list) => Gt(total + list[Len(p) + 1].length, cap)

\* C1: after every public operation, the key index and the recency list hold
\* exactly the same set of keys, and no key occurs twice in the recency list.
C1_IndexMatchesList ==
    /\ cache = {lruList[i].key : i \in 1..Len(lruList)}
    /\ \A i, j \in 1..Len(lruList) : lruList[i].key = lruList[j].key => i = j
    /\ Cardinality(cache) = Len(lruList)

\* C1 witness: del(key) has just removed one of three entries.
C1_Witness ==
    /\ Did("del")
    /\ Len(lruList) = 2
    /\ lastOp.key \notin cache
    /\ Len(disposed) = 1 /\ disposed[1][1] = lastOp.key

\* C2: after every public operation, cache.length is the sum of the stored
\* lengths of the entries of the recency list.
C2_LengthIsSum == length = SumLength(lruList)

\* C2 witness: set() has just replaced the value of a present key by a longer
\* one (from length 1 to length 3), with another entry in the cache.
C2_Witness ==
    /\ Did("set") /\ ret = Bool(TRUE)
    /\ lengthCalculator = "byValue"
    /\ lastOp.value = 3
    /\ disposed = << <<lastOp.key, 1>> >>
    /\ Len(lruList) = 2 /\ length = 4

\* C3: after every public operation, the total length is at most the capacity.
C3_WithinCapacity == ~Gt(length, max)

\* C3 witness: set() has just filled the cache to its capacity by dropping two
\* entries.
C3_Witness ==
    /\ Did("set") /\ ret = Bool(TRUE)
    /\ max # Infinity /\ length = max
    /\ Len(disposed) = 2
    /\ disposed[1][1] # lastOp.key /\ disposed[2][1] # lastOp.key


\* The recency list that the trim of the call that just returned was given:
\* for set(key), the entry written, at the head, before the other entries
\* (or the other entries alone, when set() found its own entry stale and
\* dropped it); for the lengthCalculator setter, the entries with their new
\* lengths; for the max and maxAge setters, the list as it was.
C4_BeforeTrim ==
    IF lastOp'.op = "set"
    THEN IF lastOp'.key \in cache'
         THEN <<lruList'[1]>> \o Without(lruList, lastOp'.key)
         ELSE Without(lruList, lastOp'.key)
    ELSE [i \in 1..Len(lruList) |->
            [lruList[i] EXCEPT !.length = Weight(lengthCalculator',
                                                 lruList[i].value,
                                                 lruList[i].key)]]

\* C4: the entries a trim drops are the tail of the recency list, and it
\* drops no entry once the total length is within the capacity; with capacity
\* N and unit lengths, set() of a new key into a cache of N entries drops
\* exactly the tail entry, and has() of its key is false afterwards.
C4_TrimDropsTailOnly ==
    [][/\ ( \/ lastOp'.op = "set" /\ ret' = Bool(TRUE)
            \/ lastOp'.op \in {"max", "maxAge"} /\ ret' = Void
            \/ lastOp'.op = "lengthCalculator" )
          => /\ lastOp'.op = "set" /\ lastOp'.key \in cache'
                  => lruList'[1].key = lastOp'.key
             /\ CutToFit(lruList', C4_BeforeTrim, length', max')
       /\ ( /\ lastOp'.op = "set" /\ ret' = Bool(TRUE)
            /\ lastOp'.key \notin cache
            /\ lengthCalculator = "naiveLength"
            /\ max = Len(lruList) )
          => /\ cache' = (cache \ {lruList[Len(lruList)].key}) \cup {lastOp'.key}
             /\ Len(lruList') = max
             /\ ~has(Self', lruList[Len(lruList)].key, clock')
      ]_vars

\* C4 witness: with capacity 2 and unit lengths, set() of a third key has
\* just dropped one entry, whose key is gone.
C4_Witness ==
    /\ Did("set") /\ ret = Bool(TRUE)
    /\ max = 2 /\ lengthCalculator = "naiveLength"
    /\ Len(lruList) = 2
    /\ Len(disposed) = 1
    /\ disposed[1][1] \notin cache
    /\ ~has(Self, disposed[1][1], clock)


\* The entry of a present key.
EntryOf(key) == lruList[cacheGet(Self, key)]

\* key is present and its entry is not stale.
Fresh(key) == key \in cache /\ ~isStale(Self, EntryOf(key), clock)

\* C5: get(key) of a present, non-stale key moves its entry to the head and
\* leaves the other entries in their order, so that with capacity 2 and unit
\* lengths the next set() of a new key drops the other entry; peek(key)
\* returns the same value and changes neither the list nor the total length.
C5_GetPromotesPeekDoesNot ==
    [][/\ (lastOp'.op = "get" /\ Fresh(lastOp'.key))
          => /\ ret' = Val(EntryOf(lastOp'.key).value)
             /\ lruList'[1].key = lastOp'.key
             /\ lruList'[1].value = EntryOf(lastOp'.key).value
             /\ Without(lruList', lastOp'.key) = Without(lruList, lastOp'.key)
             /\ Len(lruList') = Len(lruList)
             /\ cache' = cache /\ length' = length
             /\ (max' = 2 /\ Len(lruList') = 2 /\ lengthCalculator' = "naiveLength")
                => \A c \in workload.keys \ cache, v \in workload.values :
                     set(Self', c, v, Num(0), clock').self.cache = {lastOp'.key, c}
       /\ (lastOp'.op = "peek" /\ Fresh(lastOp'.key))
          => /\ ret' = Val(EntryOf(lastOp'.key).value)
             /\ ret' = get(Self, lastOp'.key, TRUE, clock).ret
             /\ lruList' = lruList
             /\ cache' = cache /\ length' = length
             /\ disposed' = <<>>
      ]_vars

\* C5 witness: get() has just returned the value of an entry that is at the
\* head although it was written before the entry behind it.
C5_Witness ==
    /\ Did("get") /\ ret.kind = "value"
    /\ ~updateAgeOnGet
    /\ Len(lruList) >= 2
    /\ lruList[1].key = lastOp.key
    /\ lruList[1].maxAge # 0 /\ lruList[2].maxAge # 0
    /\ lruList[1].now < lruList[2].now


\* The length set() computes for the value of the call that just returned.
ArgLength == Weight(lengthCalculator, lastOp'.value, lastOp'.key)

\* C6: set(key, value) with a length above the capacity returns false and
\* leaves the cache without the key: an absent key is not inserted, the entry
\* of a present key is removed from index and list and its length
\* subtracted; the other entries, their order and lengths are unchanged.
C6_OversizedSetRemovesKey ==
    [][(lastOp'.op = "set" /\ lastOp'.age.num /\ Gt(ArgLength, max))
       => /\ ret' = Bool(FALSE)
          /\ cache' = cache \ {lastOp'.key}
          /\ lruList' = Without(lruList, lastOp'.key)
          /\ length' = length - (IF lastOp'.key \in cache
                                 THEN EntryOf(lastOp'.key).length
                                 ELSE 0)
      ]_vars

\* C6 witness: set() of a present key with a value of length 3 has just been
\* rejected; the old entry (value 1) is gone and another entry remains.
C6_Witness ==
    /\ Did("set") /\ ret = Bool(FALSE)
    /\ lastOp.value = 3
    /\ disposed = << <<lastOp.key, 1>> >>
    /\ lastOp.key \notin cache
    /\ Len(lruList) >= 1

\* C7: whenever set(key, value) is rejected for its length and a dispose
\* function is configured, dispose is called with the key and the value
\* passed to that set(), whether the key was absent or present.
C7_RejectedSetDisposesArgument ==
    (Did("set") /\ ret = Bool(FALSE) /\ dispose)
    => disposed = << <<lastOp.key, lastOp.value>> >>

\* The dispose calls the entries of list call for.
Pairs(list) == [i \in 1..Len(list) |-> <<list[i].key, list[i].value>>]

Count(seq, x) == Cardinality({i \in 1..Len(seq) : seq[i] = x})

SameBag(s, t) ==
    /\ Len(s) = Len(t)
    /\ \A i \in 1..Len(s) : Count(s, s[i]) = Count(t, s[i])

\* The entries the call that just returned took out of the cache.
Gone == SelectSeq(lruList, LAMBDA e : e.key \notin cache')

C9_NoAgeInEffectNeverStale ==
    (workload.ttls = {0} /\ workload.loads = {} /\ maxAge = 0)
    => \A i \in 1..Len(lruList) : ~isStale(Self, lruList[i], clock)

\* The entry is past the age in effect for it: its own maxAge, or the
\* cache's when it has none.
PastItsAge(e) ==
    LET age == IF e.maxAge # 0 THEN e.maxAge ELSE maxAge
    IN  age # 0 /\ clock - e.now > age

\* C10: with allowStale off, get(key) or peek(key) of a present entry that
\* is past its age returns undefined, takes the entry out of index and list,
\* subtracts its length and calls dispose with it; has(key) is then false
\* and another get(key) returns undefined.
C10_StaleReadRemoves ==
    [][( /\ lastOp'.op \in {"get", "peek"}
         /\ ~allowStale
         /\ lastOp'.key \in cache
         /\ PastItsAge(EntryOf(lastOp'.key)) )
       => /\ ret' = Undefined
          /\ cache' = cache \ {lastOp'.key}
          /\ lruList' = Without(lruList, lastOp'.key)
          /\ length' = length - EntryOf(lastOp'.key).length
          /\ dispose => disposed' = << <<lastOp'.key,
                                        EntryOf(lastOp'.key).value>> >>
          /\ ~has(Self', lastOp'.key, clock')
          /\ get(Self', lastOp'.key, TRUE, clock').ret = Undefined
      ]_vars

\* C10 witness: peek() of a stale entry has just returned undefined with
\* allowStale off; the entry was disposed of and another one is still there.
C10_Witness ==
    /\ Did("peek") /\ ret = Undefined
    /\ ~allowStale /\ dispose
    /\ Len(disposed) = 1 /\ disposed[1][1] = lastOp.key
    /\ lastOp.key \notin cache
    /\ Len(lruList) >= 1


\* C11: with allowStale on, get(key) or peek(key) of a present entry that is
\* past its age returns the entry's value and, in the same call, takes the
\* entry out of index and list and calls dispose with it; has(key) is then
\* false and another get(key) returns undefined.
C11_StaleValueReturnedOnce ==
    [][( /\ lastOp'.op \in {"get", "peek"}
         /\ allowStale
         /\ lastOp'.key \in cache
         /\ PastItsAge(EntryOf(lastOp'.key)) )
       => /\ ret' = Val(EntryOf(lastOp'.key).value)
          /\ cache' = cache \ {lastOp'.key}
          /\ lruList' = Without(lruList, lastOp'.key)
          /\ length' = length - EntryOf(lastOp'.key).length
          /\ dispose => disposed' = << <<lastOp'.key,
                                        EntryOf(lastOp'.key).value>> >>
          /\ ~has(Self', lastOp'.key, clock')
          /\ get(Self', lastOp'.key, TRUE, clock').ret = Undefined
          /\ get(Self', lastOp'.key, FALSE, clock').ret = Undefined
      ]_vars

\* C11 witness: get() of a stale entry has just returned its value with
\* allowStale on; the entry is gone and was disposed of.
C11_Witness ==
    /\ Did("get") /\ ret.kind = "value"
    /\ allowStale /\ dispose
    /\ disposed = << <<lastOp.key, ret.val>> >>
    /\ lastOp.key \notin cache

\* C12: has(key) returns true exactly when the key is in the index and its
\* entry is not past its age, and it changes nothing: keys, recency order,
\* timestamps, lengths, total length and configuration are as before, and no
\* dispose call is made, also when the entry is stale.
C12_HasIsPure ==
    [][lastOp'.op = "has"
       => /\ ret' = Bool(/\ lastOp'.key \in cache
                         /\ ~PastItsAge(EntryOf(lastOp'.key)))
          /\ UNCHANGED <<cache, lruList, length, config, clock>>
          /\ disposed' = <<>>
      ]_vars

\* C12 witness: has() has just returned false for a key that is still in the
\* cache, its entry being stale.
C12_Witness ==
    /\ Did("has") /\ ret = Bool(FALSE)
    /\ lastOp.key \in cache
    /\ PastItsAge(EntryOf(lastOp.key))
    /\ disposed = <<>>


\* The age in effect for an entry, 0 for none, and the time it has left.
AgeOf(e) == IF e.maxAge # 0 THEN e.maxAge ELSE maxAge

TimeLeft(e) == IF AgeOf(e) = 0 THEN Infinity ELSE e.now + AgeOf(e) - clock

\* The entries that are not stale, head first.
FreshEntries == SelectSeq(lruList, LAMBDA e : ~PastItsAge(e))

\* A new cache of the same configuration, and what load(dump()) makes of it
\* with the clock where it is.
NewCache == [Self EXCEPT !.cache = {}, !.lruList = <<>>, !.length = 0]

RoundTrip == load(NewCache, dump(Self, clock), clock)

\* C13: whatever calls the cache has seen, and under every option setting,
\* load(dump()) into a new cache of the same configuration, with no clock
\* advance, gives the keys of the entries that are not stale, in the same
\* recency order, with the same values and the same time left (none for
\* an entry that has no age).
C13_RoundTrip ==
    LET copy == RoundTrip.lruList
    IN  /\ Len(copy) = Len(FreshEntries)
        /\ \A i \in 1..Len(copy) :
              /\ copy[i].key = FreshEntries[i].key
              /\ copy[i].value = FreshEntries[i].value
              /\ TimeLeft(copy[i]) = TimeLeft(FreshEntries[i])


\* The record dump() is to give for an entry: its expiry, 0 for none.
Dumped(e) ==
    [k |-> e.key, v |-> e.value,
     e |-> IF AgeOf(e) = 0 THEN 0 ELSE e.now + AgeOf(e)]

\* C14: dump() changes nothing and returns the entries that are not stale,
\* head first, each with its key, its value and the time at which it expires:
\* the time it was written plus the age in effect for it, and 0 for an entry
\* that has no age, also after get() read it with updateAgeOnGet on.
C14_DumpListsFreshEntries ==
    [][lastOp'.op = "dump"
       => /\ UNCHANGED <<cache, lruList, length, config, clock>>
          /\ disposed' = <<>>
          /\ out' = [i \in 1..Len(FreshEntries) |-> Dumped(FreshEntries[i])]
      ]_vars

\* C15: the max setter and the maxAge setter, given a negative number or
\* something that is not a number, throw a TypeError and leave entries,
\* order, total length and configuration as they were.
C15_SettersRejectInvalid ==
    [][( /\ lastOp'.op \in {"max", "maxAge"}
         /\ (~lastOp'.age.num \/ lastOp'.age.n < 0) )
       => /\ ret' = TypeError
          /\ UNCHANGED <<cache, lruList, length, config>>
          /\ disposed' = <<>>
      ]_vars


\* C16 as stated: when the max setter, given a number c >= 0, returns, the
\* total length is at most c.
C16_TotalAtMostAssigned ==
    (Did("max") /\ ret = Void) => length <= lastOp.age.n

\* C16: the max setter, given a number c > 0, trims at once: the total length
\* is then at most c, the entries removed are the last ones of the recency
\* list, no more of them than needed, and the others keep their order.  Given
\* 0 it makes the capacity Infinity and removes nothing.
C16_SetMaxTrims ==
    [][(lastOp'.op = "max" /\ lastOp'.age.num /\ lastOp'.age.n >= 0)
       => /\ ret' = Void
          /\ max' = IF lastOp'.age.n = 0 THEN Infinity ELSE lastOp'.age.n
          /\ lastOp'.age.n > 0 => length' <= lastOp'.age.n
          /\ lastOp'.age.n = 0 => lruList' = lruList
          /\ CutToFit(lruList', lruList, length', max')
          /\ length' = SumLength(lruList')
          /\ cache' = {lruList'[i].key : i \in 1..Len(lruList')}
          /\ dispose => disposed' =
                [i \in 1..(Len(lruList) - Len(lruList')) |->
                   Pairs(lruList)[Len(lruList) + 1 - i]]
      ]_vars

\* C16 witness: the max setter has just dropped the two last entries of three
\* to get down to the new capacity.
C16_Witness ==
    /\ Did("max") /\ ret = Void
    /\ max = 1 /\ length = 1
    /\ Len(disposed) = 2

\* C18: the maxAge setter, given a number >= 0, removes nothing: keys,
\* recency order, values, timestamps, lengths and total length are as before
\* and no dispose call is made; only the cache's maxAge changes.
C18_SetMaxAgeRemovesNothing ==
    [][(lastOp'.op = "maxAge" /\ lastOp'.age.num /\ lastOp'.age.n >= 0)
       => /\ ret' = Void
          /\ maxAge' = lastOp'.age.n
          /\ UNCHANGED <<cache, lruList, length, max, lengthCalculator,
                         allowStale>>
          /\ disposed' = <<>>
      ]_vars

\* C18 witness: the maxAge setter has just made an entry stale that was not,
\* and the entry is still there.
C18_Witness ==
    /\ Did("maxAge") /\ ret = Void
    /\ maxAge = 1
    /\ \E i \in 1..Len(lruList) :
          lruList[i].maxAge = 0 /\ PastItsAge(lruList[i])
    /\ disposed = <<>>


\* The age set() puts in effect for the entry it writes: its maxAge argument,
\* or the cache's maxAge.
AgeWritten == IF lastOp'.age.n # 0 THEN lastOp'.age.n ELSE maxAge

C20_PruneRemovesStaleOnly ==
    [][lastOp'.op = "prune"
       => /\ lruList' = FreshEntries
          /\ cache' = {FreshEntries[i].key : i \in 1..Len(FreshEntries)}
          /\ length' = SumLength(FreshEntries)
          /\ \A i \in 1..Len(lruList') : ~isStale(Self', lruList'[i], clock')
          /\ dispose =>
                SameBag(disposed',
                        Pairs(SelectSeq(lruList, LAMBDA e : PastItsAge(e))))
      ]_vars

\* C20 witness: prune() has just removed a stale entry that lay between two
\* entries that are not stale.
C20_Witness ==
    /\ Did("prune")
    /\ Len(disposed) = 1
    /\ Len(lruList) = 2
    /\ \A i \in 1..2 : lruList[i].maxAge # 0 /\ lruList[i].now > 1


\* C17: under a dispose function that throws, whatever operation the
\* exception came out of (set, del, pop, reset, load, prune, forEach, a read
\* of a stale entry, a setter that trims), the state left behind has the
\* same keys in the index and in the recency list, each once in the list,
\* and a total length that is the sum of the stored lengths.
C17_ThrowLeavesIndexAndListAlike ==
    /\ \A key \in workload.keys :
          key \in cache <=> \E i \in 1..Len(lruList) : lruList[i].key = key
    /\ Len(lruList) = Cardinality(cache)
    /\ length = SumLength(lruList)

\* C17 witness: dispose has just thrown in the trim of set(), after trim
\* removed one entry and before it removed the next: the cache is left above
\* its capacity.
C17_Witness ==
    /\ Did("set") /\ ret = DisposeError
    /\ Len(disposed) = 2
    /\ lastOp.key \in cache
    /\ disposed[1][1] \notin cache /\ disposed[2][1] \in cache
    /\ Gt(length, max)


\* C21: reset() calls dispose once for every entry it holds, from the head
\* of the recency list to its tail, and leaves the cache empty: no key in
\* the index, an empty list, total length 0; max, maxAge, the length
\* function and the flags are as before.
C21_ResetDisposesAllAndEmpties ==
    [][lastOp'.op = "reset"
       => /\ disposed' = IF dispose THEN Pairs(lruList) ELSE <<>>
          /\ cache' = {} /\ lruList' = <<>> /\ length' = 0
          /\ UNCHANGED config
          /\ ret' = Void
      ]_vars

\* C21 witness: reset() has just emptied a cache of three entries, with a
\* dispose call for each.
C21_Witness ==
    /\ Did("reset")
    /\ Len(disposed) = 3
    /\ disposed[1][1] # disposed[3][1]
    /\ cache = {} /\ lruList = <<>> /\ length = 0

\* list from its last element to its first
Reverse(list) == [i \in 1..Len(list) |-> list[Len(list) + 1 - i]]

\* The visitor calls fn(value, key) for the entries of list.
Visits(list) == [i \in 1..Len(list) |-> <<list[i].value, list[i].key>>]

\* C22: forEach calls the visitor from the head of the recency list to its
\* tail and rforEach from the tail to the head: once for every entry that is
\* not stale, and for a stale entry only when allowStale is on.  The stale
\* entries are removed, with a dispose call each, and the entries that stay
\* keep their order.
C22_ForEachVisitsInOrder ==
    [][lastOp'.op \in {"forEach", "rforEach"}
       => LET seen == IF allowStale THEN lruList ELSE FreshEntries
              gone == SelectSeq(lruList, LAMBDA e : PastItsAge(e))
              way(list) == IF lastOp'.op = "forEach" THEN list
                           ELSE Reverse(list)
          IN  /\ out' = Visits(way(seen))
              /\ lruList' = FreshEntries
              /\ cache' = {FreshEntries[i].key : i \in 1..Len(FreshEntries)}
              /\ length' = SumLength(FreshEntries)
              /\ disposed' = IF dispose THEN Pairs(way(gone)) ELSE <<>>
      ]_vars

\* C22 witness: with allowStale on, rforEach has just visited two entries,
\* the stale one at the tail first, and removed that one.
C22_Witness ==
    /\ Did("rforEach") /\ allowStale
    /\ Len(out) = 2 /\ Len(disposed) = 1
    /\ out[1][2] = disposed[1][1]
    /\ ListKeys = <<out[2][2]>>

\* C23: get(key) of an entry that is not stale sets its timestamp to the
\* time of the call when updateAgeOnGet is on, so that the entry is not
\* stale at any time up to its age later, and leaves the timestamp alone
\* when updateAgeOnGet is off; peek and has leave it alone in both cases.
C23_GetRefreshesAge ==
    [][( /\ lastOp'.op \in {"get", "peek", "has"}
         /\ lastOp'.key \in cache
         /\ ~PastItsAge(EntryOf(lastOp'.key)) )
       => LET e == EntryOf(lastOp'.key)
              after == lruList'[cacheGet(Self', lastOp'.key)]
          IN  /\ lastOp'.key \in cache'
              /\ after.maxAge = e.maxAge /\ after.value = e.value
              /\ after.now = IF lastOp'.op = "get" /\ updateAgeOnGet
                             THEN clock ELSE e.now
              /\ (lastOp'.op = "get" /\ updateAgeOnGet)
                 => \A d \in 0..MaxClock :
                       (AgeOf(e) = 0 \/ d <= AgeOf(e))
                       => /\ ~isStale(Self', after, clock + d)
                          /\ has(Self', lastOp'.key, clock + d)
      ]_vars

\* C23 witness: with updateAgeOnGet on, get() has just read an entry of age
\* 1 at time 3 and stamped it; the entry had been stamped by a read before.
C23_Witness ==
    /\ Did("get") /\ ret.kind = "value"
    /\ updateAgeOnGet
    /\ clock = 3
    /\ lruList[1].key = lastOp.key
    /\ lruList[1].maxAge = 1 /\ lruList[1].now = 3
    /\ Len(lruList) = 2

\* C24: whenever set(key, value, maxAge) returns true, the key is in the
\* index and at the head of the recency list with the value, the trim of
\* that set() has not removed it, and a peek(key) at the same time returns
\* the value.
C24_SetTrueKeepsKey ==
    [][(lastOp'.op = "set" /\ ret' = Bool(TRUE))
       => /\ lastOp'.key \in cache'
          /\ Len(lruList') >= 1
          /\ lruList'[1].key = lastOp'.key
          /\ lruList'[1].value = lastOp'.value
          /\ get(Self', lastOp'.key, FALSE, clock').ret = Val(lastOp'.value)
      ]_vars

====
